---- MODULE Spec2Model ----
(***************************************************************************)
(* A model of encore's MPD protocol client (src/src/mpd.rs): the greeting  *)
(* handshake, the five request/response operations and their line          *)
(* decoders, together with the two byte streams of one connection and a    *)
(* server that answers command lines in order; and of the application's    *)
(* event loop (src/src/app.rs), which shares no state with the client.     *)
(*                                                                         *)
(* A byte is a string holding its character (ZERO for the byte 0); a line   *)
(* is a sequence of bytes without its terminating newline.  Option<T> is a *)
(* sequence of length 0 (None) or 1 (Some).                                *)
(***************************************************************************)
EXTENDS Integers, Sequences, FiniteSets

VARIABLES
    pc,         \* "init" | "failed" | "ready" | "reading": where the caller is
    op,         \* the operation in progress, or the one that returned last
    acc,        \* the local variables of the operation in progress
    result,     \* what the last finished call returned
    wire,       \* server -> client lines not yet consumed by the BufReader
    eof,        \* the server has closed its end after the lines in wire
    tx,         \* client -> server bytes of a command line not yet terminated
    inbox,      \* complete command lines the server has not answered yet
    calls,      \* number of calls started on this client
    budget,     \* number of calls the application will still make
    readLines,  \* history: the lines the call in progress has consumed
    hist,       \* history: what has happened on this connection so far
    should_quit, \* App::should_quit
    is_playing, \* App::is_playing
    run,        \* where App::run is: "select" | "draw" | "returned" | "failed" | "panicked"
    never,      \* the interval `never`: its next tick is "due" or "armed" for later
    ahist       \* history of the event loop

mpdVars == <<pc, op, acc, result, wire, eof, tx, inbox, calls, budget, readLines, hist>>
appVars == <<should_quit, is_playing, run, never, ahist>>
vars == <<pc, op, acc, result, wire, eof, tx, inbox, calls, budget, readLines, hist, should_quit, is_playing, run, never, ahist>>

----------------------------------------------------------------------------
(* Bounds of the model.                                                    *)

MaxCalls == 2

----------------------------------------------------------------------------
(* The byte-string literals of the source.                                 *)

GREETING ==
    <<"O", "K", " ", "M", "P", "D", " ">>
CMD_IDLE ==
    <<"i", "d", "l", "e", " ", "o", "p", "t", "i", "o", "n", "s", " ", "p", "l", "a", "y", "e", "r", " ", "p", "l", "a", "y", "l", "i", "s", "t", "\n">>
CMD_PLAYLISTINFO ==
    <<"p", "l", "a", "y", "l", "i", "s", "t", "i", "n", "f", "o", "\n">>
CMD_STATUS ==
    <<"s", "t", "a", "t", "u", "s", "\n">>
CMD_PLAY ==
    <<"p", "l", "a", "y", " ">>
OK ==
    <<"O", "K">>
ACK ==
    <<"A", "C", "K", " ">>
CHANGED_OPTIONS ==
    <<"c", "h", "a", "n", "g", "e", "d", ":", " ", "o", "p", "t", "i", "o", "n", "s">>
CHANGED_PLAYER ==
    <<"c", "h", "a", "n", "g", "e", "d", ":", " ", "p", "l", "a", "y", "e", "r">>
CHANGED_PLAYLIST ==
    <<"c", "h", "a", "n", "g", "e", "d", ":", " ", "p", "l", "a", "y", "l", "i", "s", "t">>
FILE ==
    <<"f", "i", "l", "e", ":", " ">>
ARTIST ==
    <<"A", "r", "t", "i", "s", "t", ":", " ">>
ALBUM ==
    <<"A", "l", "b", "u", "m", ":", " ">>
TITLE ==
    <<"T", "i", "t", "l", "e", ":", " ">>
TIME ==
    <<"T", "i", "m", "e", ":", " ">>
REPEAT_0 ==
    <<"r", "e", "p", "e", "a", "t", ":", " ", "0">>
REPEAT_1 ==
    <<"r", "e", "p", "e", "a", "t", ":", " ", "1">>
RANDOM_0 ==
    <<"r", "a", "n", "d", "o", "m", ":", " ", "0">>
RANDOM_1 ==
    <<"r", "a", "n", "d", "o", "m", ":", " ", "1">>
SINGLE_0 ==
    <<"s", "i", "n", "g", "l", "e", ":", " ", "0">>
SINGLE_1 ==
    <<"s", "i", "n", "g", "l", "e", ":", " ", "1">>
SINGLE_ONESHOT ==
    <<"s", "i", "n", "g", "l", "e", ":", " ", "o", "n", "e", "s", "h", "o", "t">>
CONSUME_0 ==
    <<"c", "o", "n", "s", "u", "m", "e", ":", " ", "0">>
CONSUME_1 ==
    <<"c", "o", "n", "s", "u", "m", "e", ":", " ", "1">>
PLAYLISTLENGTH ==
    <<"p", "l", "a", "y", "l", "i", "s", "t", "l", "e", "n", "g", "t", "h", ":", " ">>
STATE_PLAY ==
    <<"s", "t", "a", "t", "e", ":", " ", "p", "l", "a", "y">>
STATE_PAUSE ==
    <<"s", "t", "a", "t", "e", ":", " ", "p", "a", "u", "s", "e">>
SONG ==
    <<"s", "o", "n", "g", ":", " ">>
ELAPSED ==
    <<"e", "l", "a", "p", "s", "e", "d", ":", " ">>

NL == "\n"

\* Decimal digits of u16::MAX (Track.time) and of usize::MAX on a 64-bit target.
U16_MAX ==
    <<"6", "5", "5", "3", "5">>
USIZE_MAX ==
    <<"1", "8", "4", "4", "6", "7", "4", "4", "0", "7", "3", "7", "0", "9", "5", "5", "1", "6", "1", "5">>

----------------------------------------------------------------------------
(* Option values, byte slices and the standard parsers the decoders call.  *)

None == <<>>
Some(x) == <<x>>
IsSome(o) == Len(o) = 1

\* line.as_bytes() matches [prefix.., ..]
StartsWith(line, prefix) ==
    /\ Len(line) >= Len(prefix)
    /\ SubSeq(line, 1, Len(prefix)) = prefix

\* line[n..]
Skip(line, n) == SubSeq(line, n + 1, Len(line))

Digits == {"0", "1", "2", "3", "4", "5", "6", "7", "8", "9"}

DigitValue(c) ==
    CASE c = "0" -> 0 [] c = "1" -> 1 [] c = "2" -> 2 [] c = "3" -> 3
      [] c = "4" -> 4 [] c = "5" -> 5 [] c = "6" -> 6 [] c = "7" -> 7
      [] c = "8" -> 8 [] c = "9" -> 9

AllDigits(s) == \A i \in 1..Len(s) : s[i] \in Digits

RECURSIVE Decimal(_)
Decimal(s) ==
    IF s = <<>> THEN 0
    ELSE 10 * Decimal(SubSeq(s, 1, Len(s) - 1)) + DigitValue(s[Len(s)])

RECURSIVE StripZeros(_)
StripZeros(s) ==
    IF s # <<>> /\ s[1] = "0" THEN StripZeros(Tail(s)) ELSE s

\* a > b for digit strings of the same length
RECURSIVE DigitsGreater(_, _)
DigitsGreater(a, b) ==
    IF a = <<>> THEN FALSE
    ELSE IF a[1] # b[1] THEN DigitValue(a[1]) > DigitValue(b[1])
    ELSE DigitsGreater(Tail(a), Tail(b))

\* the number written as s is larger than the number written as max
Exceeds(s, max) ==
    LET t == StripZeros(s) IN
    \/ Len(t) > Len(max)
    \/ Len(t) = Len(max) /\ DigitsGreater(t, max)

ParseErr == [ok |-> FALSE, val |-> 0]
ParseOk(n) == [ok |-> TRUE, val |-> n]

\* str::parse for an unsigned integer type whose largest value is max:
\* an optional '+', then one or more digits, no overflow.
ParseUnsigned(s, max) ==
    IF s = <<>> THEN ParseErr
    ELSE IF Len(s) = 1 /\ s[1] \in {"+", "-"} THEN ParseErr
    ELSE LET d == IF s[1] = "+" THEN Tail(s) ELSE s IN
         IF ~AllDigits(d) THEN ParseErr
         ELSE IF Exceeds(d, max) THEN ParseErr
         ELSE ParseOk(Decimal(d))

ParseUsize(s) == ParseUnsigned(s, USIZE_MAX)
ParseU16(s) == ParseUnsigned(s, U16_MAX)

FirstDot(s) ==
    IF \E i \in 1..Len(s) : s[i] = "."
    THEN CHOOSE i \in 1..Len(s) : s[i] = "." /\ \A j \in 1..(i - 1) : s[j] # "."
    ELSE Len(s) + 1

\* ASCII lower case of the letters the float grammar names.
Lower(c) ==
    CASE c = "I" -> "i" [] c = "N" -> "n" [] c = "F" -> "f" [] c = "T" -> "t"
      [] c = "Y" -> "y" [] c = "A" -> "a" [] c = "E" -> "e" [] OTHER -> c

LowerCase(s) == [i \in 1..Len(s) |-> Lower(s[i])]

INF == <<"i", "n", "f">>
INFINITY == <<"i", "n", "f", "i", "n", "i", "t", "y">>
NAN == <<"n", "a", "n">>

\* The position of the exponent mark of s; Len(s) + 1 when there is none.
FirstExp(s) ==
    IF \E i \in 1..Len(s) : Lower(s[i]) = "e"
    THEN CHOOSE i \in 1..Len(s) : Lower(s[i]) = "e" /\ \A j \in 1..(i - 1) : Lower(s[j]) # "e"
    ELSE Len(s) + 1

\* The exponent written as x (what follows the mark): an optional sign and one
\* or more digits.  Exponents beyond +-999 stand for +-1000: the value is then
\* 0 or beyond u16::MAX whatever the digits are.
ExpOk(x) ==
    LET d == IF x # <<>> /\ x[1] \in {"+", "-"} THEN Tail(x) ELSE x IN
    d # <<>> /\ AllDigits(d)

ExpValue(x) ==
    LET d == StripZeros(IF x[1] \in {"+", "-"} THEN Tail(x) ELSE x)
        m == IF Len(d) > 3 THEN 1000 ELSE Decimal(d)
    IN  IF x[1] = "-" THEN 0 - m ELSE m

\* round() as u16 of the non-negative number 0.d * 10^point, d a digit string
\* without leading zeros: half rounds away from zero, the cast saturates.
RoundU16(d, point) ==
    IF d = <<>> \/ point < 0 THEN 0
    ELSE IF point > 5 THEN 65535
    ELSE LET ip == [i \in 1..point |-> IF i <= Len(d) THEN d[i] ELSE "0"]
             up == Len(d) > point /\ DigitValue(d[point + 1]) >= 5
         IN  IF Exceeds(ip, U16_MAX) \/ ip = U16_MAX THEN 65535
             ELSE Decimal(ip) + (IF up THEN 1 ELSE 0)

\* line[9..].parse::<f32>()?.round() as u16.  f32::from_str accepts an optional
\* sign followed by "inf", "infinity" or "nan" in any case, or by digits with
\* at most one '.', at least one digit, and an optional exponent.  round()
\* rounds half away from zero; the cast saturates at 0 and u16::MAX and turns
\* NaN into 0.  (Rounding is decided on the decimal digits, which is what f32
\* gives for the short literals used here.)
ParseElapsed(s) ==
    IF s = <<>> THEN ParseErr
    ELSE LET neg  == s[1] = "-"
             body == IF s[1] \in {"+", "-"} THEN Tail(s) ELSE s
             e    == FirstExp(body)
             mant == SubSeq(body, 1, e - 1)
             x    == SubSeq(body, e + 1, Len(body))
             dot  == FirstDot(mant)
             ip   == SubSeq(mant, 1, dot - 1)
             fp   == SubSeq(mant, dot + 1, Len(mant))
             all  == ip \o fp
         IN  IF LowerCase(body) \in {INF, INFINITY}
             THEN ParseOk(IF neg THEN 0 ELSE 65535)
             ELSE IF LowerCase(body) = NAN THEN ParseOk(0)
             ELSE IF ~AllDigits(ip) \/ ~AllDigits(fp) \/ all = <<>>
                     \/ (e <= Len(body) /\ ~ExpOk(x))
             THEN ParseErr
             ELSE IF neg THEN ParseOk(0)
             ELSE LET ex    == IF e <= Len(body) THEN ExpValue(x) ELSE 0
                      d     == StripZeros(all)
                      point == Len(ip) + ex - (Len(all) - Len(d))
                  IN  ParseOk(RoundU16(d, point))

----------------------------------------------------------------------------
(* The decoders: one step per response line.  A step answers how the loop  *)
(* goes on ("continue", "break", or "fail" for an early return through ?)   *)
(* and the new values of the locals.                                        *)

Continue(a) == [ctl |-> "continue", acc |-> a, err |-> ""]
Break(a) == [ctl |-> "break", acc |-> a, err |-> ""]
Fail(a, e) == [ctl |-> "fail", acc |-> a, err |-> e]

NoResult == [tag |-> "none", val |-> <<>>, err |-> ""]
Ok(v) == [tag |-> "ok", val |-> v, err |-> ""]
Err(e) == [tag |-> "err", val |-> <<>>, err |-> e]

\* ---- idle ----
IdleLocals == [status |-> FALSE, queue |-> FALSE]

\* IdleStep with `_ => break` for the last arm
IdleStepUnknownBreaks(a, line) ==
    IF line = CHANGED_OPTIONS THEN Continue([a EXCEPT !.status = TRUE])
    ELSE IF line = CHANGED_PLAYER THEN Continue([a EXCEPT !.status = TRUE])
    ELSE IF line = CHANGED_PLAYLIST THEN Continue([a EXCEPT !.queue = TRUE])
    ELSE Break(a)

IdleStep(a, line) ==
    IF line = CHANGED_OPTIONS THEN Continue([a EXCEPT !.status = TRUE])
    ELSE IF line = CHANGED_PLAYER THEN Continue([a EXCEPT !.status = TRUE])
    ELSE IF line = CHANGED_PLAYLIST THEN Continue([a EXCEPT !.queue = TRUE])
    ELSE IF line = OK THEN Break(a)
    ELSE Continue(a)

\* IdleReturn with the pair in the other order
IdleReturnSwapped(a) == Ok(<<a.queue, a.status>>)

IdleReturn(a) == Ok(<<a.status, a.queue>>)

\* ---- queue ----
QueueLocals ==
    [first |-> TRUE, tracks |-> <<>>, file |-> None, artist |-> None,
     album |-> None, title |-> None, time |-> 0]

Track(a) ==
    [file |-> a.file[1], artist |-> a.artist, album |-> a.album,
     title |-> a.title, time |-> a.time]

\* QueueFileLine with the first "file: " line only clearing `first`
QueueFileLineFirstLost(a, line) ==
    LET next == [a EXCEPT !.file = Some(Skip(line, 6)), !.artist = None,
                          !.album = None, !.title = None, !.time = 0]
    IN  IF a.first THEN Continue([a EXCEPT !.first = FALSE])
        ELSE IF IsSome(a.file)
             THEN Continue([next EXCEPT !.tracks = Append(a.tracks, Track(a))])
        ELSE Fail(a, "incomplete playlist response")

QueueFileLine(a, line) ==
    LET next == [a EXCEPT !.file = Some(Skip(line, 6)), !.artist = None,
                          !.album = None, !.title = None, !.time = 0]
    IN  IF a.first THEN Continue([next EXCEPT !.first = FALSE])
        ELSE IF IsSome(a.file)
             THEN Continue([next EXCEPT !.tracks = Append(a.tracks, Track(a))])
        ELSE Fail(a, "incomplete playlist response")

QueueStep(a, line) ==
    IF line = OK THEN Break(a)
    ELSE IF StartsWith(line, FILE) THEN QueueFileLine(a, line)
    ELSE IF StartsWith(line, ARTIST)
         THEN Continue([a EXCEPT !.artist = Some(Skip(line, 8))])
    ELSE IF StartsWith(line, ALBUM)
         THEN Continue([a EXCEPT !.album = Some(Skip(line, 7))])
    ELSE IF StartsWith(line, TITLE)
         THEN Continue([a EXCEPT !.title = Some(Skip(line, 7))])
    ELSE IF StartsWith(line, TIME)
         THEN LET p == ParseU16(Skip(line, 6)) IN
              IF p.ok THEN Continue([a EXCEPT !.time = p.val])
              ELSE Fail(a, "decode")
    ELSE Continue(a)

\* QueueReturn without the flush of the record in progress
QueueReturnNoFlush(a) == Ok(a.tracks)

QueueReturn(a) ==
    IF IsSome(a.file) THEN Ok(Append(a.tracks, Track(a))) ELSE Ok(a.tracks)

\* ---- status ----
StatusLocals ==
    [repeat |-> None, random |-> None, single |-> None, consume |-> None,
     queue_len |-> None, state |-> "Stop", pos |-> None, elapsed |-> None]

StatusStep(a, line) ==
    IF line = OK THEN Break(a)
    ELSE IF line = REPEAT_0 THEN Continue([a EXCEPT !.repeat = Some(FALSE)])
    ELSE IF line = REPEAT_1 THEN Continue([a EXCEPT !.repeat = Some(TRUE)])
    ELSE IF line = RANDOM_0 THEN Continue([a EXCEPT !.random = Some(FALSE)])
    ELSE IF line = RANDOM_1 THEN Continue([a EXCEPT !.random = Some(TRUE)])
    ELSE IF line = SINGLE_0 THEN Continue([a EXCEPT !.single = Some(Some(FALSE))])
    ELSE IF line = SINGLE_1 THEN Continue([a EXCEPT !.single = Some(Some(TRUE))])
    ELSE IF line = SINGLE_ONESHOT THEN Continue([a EXCEPT !.single = Some(None)])
    ELSE IF line = CONSUME_0 THEN Continue([a EXCEPT !.consume = Some(FALSE)])
    ELSE IF line = CONSUME_1 THEN Continue([a EXCEPT !.consume = Some(TRUE)])
    ELSE IF StartsWith(line, PLAYLISTLENGTH)
         THEN LET p == ParseUsize(Skip(line, 16)) IN
              IF p.ok THEN Continue([a EXCEPT !.queue_len = Some(p.val)])
              ELSE Fail(a, "decode")
    ELSE IF line = STATE_PLAY THEN Continue([a EXCEPT !.state = "Play"])
    ELSE IF line = STATE_PAUSE THEN Continue([a EXCEPT !.state = "Pause"])
    ELSE IF StartsWith(line, SONG)
         THEN LET p == ParseUsize(Skip(line, 6)) IN
              IF p.ok THEN Continue([a EXCEPT !.pos = Some(p.val)])
              ELSE Fail(a, "decode")
    ELSE IF StartsWith(line, ELAPSED)
         THEN LET p == ParseElapsed(Skip(line, 9)) IN
              IF p.ok THEN Continue([a EXCEPT !.elapsed = Some(p.val)])
              ELSE Fail(a, "decode")
    ELSE Continue(a)

\* StatusReturn with consume defaulting to false instead of being required
StatusReturnNoConsume(a) ==
    IF /\ IsSome(a.repeat) /\ IsSome(a.random) /\ IsSome(a.single)
       /\ IsSome(a.queue_len)
    THEN Ok([repeat |-> a.repeat[1], random |-> a.random[1],
             single |-> a.single[1],
             consume |-> IF IsSome(a.consume) THEN a.consume[1] ELSE FALSE,
             queue_len |-> a.queue_len[1], state |-> a.state,
             song |-> IF IsSome(a.pos) /\ IsSome(a.elapsed)
                      THEN Some([pos |-> a.pos[1], elapsed |-> a.elapsed[1]])
                      ELSE None])
    ELSE Err("incomplete status response")

\* StatusReturn with the song built from the position alone
StatusReturnSongByPos(a) ==
    IF /\ IsSome(a.repeat) /\ IsSome(a.random) /\ IsSome(a.single)
       /\ IsSome(a.consume) /\ IsSome(a.queue_len)
    THEN Ok([repeat |-> a.repeat[1], random |-> a.random[1],
             single |-> a.single[1], consume |-> a.consume[1],
             queue_len |-> a.queue_len[1], state |-> a.state,
             song |-> IF IsSome(a.pos)
                      THEN Some([pos |-> a.pos[1],
                                 elapsed |-> IF IsSome(a.elapsed) THEN a.elapsed[1] ELSE 0])
                      ELSE None])
    ELSE Err("incomplete status response")

StatusReturn(a) ==
    IF /\ IsSome(a.repeat) /\ IsSome(a.random) /\ IsSome(a.single)
       /\ IsSome(a.consume) /\ IsSome(a.queue_len)
    THEN Ok([repeat |-> a.repeat[1], random |-> a.random[1],
             single |-> a.single[1], consume |-> a.consume[1],
             queue_len |-> a.queue_len[1], state |-> a.state,
             song |-> IF IsSome(a.pos) /\ IsSome(a.elapsed)
                      THEN Some([pos |-> a.pos[1], elapsed |-> a.elapsed[1]])
                      ELSE None])
    ELSE Err("incomplete status response")

\* ---- play and command ----
UnitLocals == [unit |-> TRUE]

\* PlayStep with an ACK line reported as a server error
PlayStepAckFails(a, line) ==
    IF line = OK THEN Break(a)
    ELSE IF StartsWith(line, ACK) THEN Fail(a, "server")
    ELSE Continue(a)

PlayStep(a, line) ==
    IF line = OK \/ StartsWith(line, ACK) THEN Break(a) ELSE Continue(a)

CommandStep(a, line) ==
    IF line = OK \/ StartsWith(line, ACK) THEN Break(a) ELSE Continue(a)

UnitReturn(a) == Ok(<<>>)

\* The dispatch over the operation in progress.
Step(o, a, line) ==
    CASE o = "status" -> StatusStep(a, line)
      [] o = "queue" -> QueueStep(a, line)
      [] o = "idle" -> IdleStep(a, line)
      [] o = "play" -> PlayStep(a, line)
      [] o = "command" -> CommandStep(a, line)

Return(o, a) ==
    CASE o = "status" -> StatusReturn(a)
      [] o = "queue" -> QueueReturn(a)
      [] o = "idle" -> IdleReturn(a)
      [] o = "play" -> UnitReturn(a)
      [] o = "command" -> UnitReturn(a)

Locals(o) ==
    CASE o = "status" -> StatusLocals
      [] o = "queue" -> QueueLocals
      [] o = "idle" -> IdleLocals
      [] o = "play" -> UnitLocals
      [] o = "command" -> UnitLocals

\* The read loop of operation o as a function of the lines it is given: what
\* the call returns when it reads these lines and then the stream ends.
RECURSIVE Loop(_, _, _)
Loop(o, a, lines) ==
    IF lines = <<>> THEN Return(o, a)
    ELSE LET s == Step(o, a, Head(lines)) IN
         CASE s.ctl = "continue" -> Loop(o, s.acc, Tail(lines))
           [] s.ctl = "break" -> Return(o, s.acc)
           [] s.ctl = "fail" -> Err(s.err)

Decode(o, lines) == Loop(o, Locals(o), lines)

----------------------------------------------------------------------------
(* The connection: what the server sends and how command bytes reach it.   *)

\* Response lines used by the server of this model.
GREETING_LINE == GREETING \o <<"0", ".", "2", "3", ".", "5">>
ACK_LINE == ACK \o <<"[", "5", "@", "0", "]">>
VOLUME_LINE == <<"v", "o", "l", "u", "m", "e", ":", " ", "5", "0">>
STATE_STOP == <<"s", "t", "a", "t", "e", ":", " ", "s", "t", "o", "p">>
CHANGED_DATABASE == <<"c", "h", "a", "n", "g", "e", "d", ":", " ", "d", "a", "t", "a", "b", "a", "s", "e">>
A_MP3 == <<"a", ".", "m", "p", "3">>
B_MP3 == <<"b", ".", "m", "p", "3">>

\* What the server may send on connect: the greeting of a daemon, a greeting
\* with an empty version, and three that are not a greeting.
Greetings ==
    { GREETING_LINE, GREETING, <<"O", "K", " ", "M", "P", "X", " ", "1">>,
      ACK_LINE, OK }

StatusReplies ==
    { << REPEAT_1, RANDOM_0, SINGLE_ONESHOT, CONSUME_0, PLAYLISTLENGTH \o <<"3">>,
         STATE_PLAY, SONG \o <<"1">>, ELAPSED \o <<"1", "2", ".", "6">>, OK >>,
      << REPEAT_1, RANDOM_0, SINGLE_ONESHOT, PLAYLISTLENGTH \o <<"3">>, OK >>,
      << PLAYLISTLENGTH \o <<"x">>, VOLUME_LINE, OK >>,
      << ACK_LINE >> }

QueueReplies ==
    { << FILE \o A_MP3, ARTIST \o <<"X">>, TIME \o <<"1", "2", "0">>,
         FILE \o B_MP3, TITLE \o <<"Y">>, OK >>,
      << FILE \o A_MP3, TIME \o <<"x">>, OK >>,
      << OK >>,
      << ACK_LINE >> }

IdleReplies ==
    { << CHANGED_PLAYER, CHANGED_PLAYLIST, OK >>,
      << CHANGED_DATABASE, OK >> }

OtherReplies ==
    { << OK >>, << VOLUME_LINE, OK >>, << ACK_LINE >> }

\* The server answers a command line by the command it names.
Replies(line) ==
    IF line \o <<NL>> = CMD_STATUS THEN StatusReplies
    ELSE IF line \o <<NL>> = CMD_PLAYLISTINFO THEN QueueReplies
    ELSE IF line \o <<NL>> = CMD_IDLE THEN IdleReplies
    ELSE OtherReplies

\* The lines of a response, each tagged with the call whose command it answers.
Tagged(reply, id) == [i \in 1..Len(reply) |-> [owner |-> id, text |-> reply[i]]]

\* The server's line reader: bytes written by call id arrive after buf; every
\* newline completes a command line.
RECURSIVE Feed(_, _, _, _)
Feed(buf, inb, bytes, id) ==
    IF bytes = <<>> THEN [tx |-> buf, inbox |-> inb]
    ELSE IF bytes[1] = NL
         THEN Feed(<<>>, Append(inb, [id |-> id, line |-> buf]), Tail(bytes), id)
    ELSE Feed(Append(buf, bytes[1]), inb, Tail(bytes), id)

RECURSIVE Flatten(_)
Flatten(chunks) ==
    IF chunks = <<>> THEN <<>> ELSE Head(chunks) \o Flatten(Tail(chunks))

\* usize::to_string
RECURSIVE UsizeToString(_)
UsizeToString(n) ==
    LET d == <<"0", "1", "2", "3", "4", "5", "6", "7", "8", "9">>[(n % 10) + 1] IN
    IF n < 10 THEN <<d>> ELSE Append(UsizeToString(n \div 10), d)

\* Arguments the application passes to play and command.
Positions == {0, 12}
Commands == { <<"n", "e", "x", "t">>, <<"p", "a", "u", "s", "e", " ", "1">> }

Min(a, b) == IF a < b THEN a ELSE b

----------------------------------------------------------------------------
(* The application: App::run and the handlers it calls.                    *)

\* The terminal events handle_event tells apart: a key event has a kind and a
\* code, any other event (a resize, a mouse event) has neither.
Events ==
    { [type |-> "key", kind |-> "Press", code |-> "q"],
      [type |-> "key", kind |-> "Press", code |-> "Esc"],
      [type |-> "key", kind |-> "Press", code |-> "j"],
      [type |-> "key", kind |-> "Release", code |-> "q"],
      [type |-> "key", kind |-> "Repeat", code |-> "Esc"],
      [type |-> "resize", kind |-> "", code |-> ""] }

NoEvent == [type |-> "", kind |-> "", code |-> ""]

\* handle_event that does not look at the kind of the key event
HandleEventAnyKind(quit, event) ==
    IF event.type = "key" /\ event.code \in {"q", "Esc"} THEN TRUE ELSE quit

\* App::handle_event: the value of should_quit after it
HandleEvent(quit, event) ==
    IF event.type = "key" /\ event.kind = "Press" /\ event.code \in {"q", "Esc"}
    THEN TRUE
    ELSE quit

\* History of the event loop: the iterations begun; of the iteration begun
\* last, what woke it, the event it handled and the calls of terminal.draw and
\* handle_tick it made; the event whose handling set should_quit, whether
\* should_quit was ever true, and the draws made since.
AHist0 ==
    [iterations |-> 0, woke |-> "", event |-> NoEvent, draws |-> 0, ticks |-> 0,
     quitEvent |-> NoEvent, everQuit |-> FALSE, quitDraws |-> 0]

\* App::default(), and run() at its first select!: both intervals were just
\* created, and the first tick of an interval completes at once.
AppInit ==
    /\ should_quit = FALSE
    /\ is_playing = FALSE
    /\ run = "select"
    /\ never = "due"
    /\ ahist = AHist0

----------------------------------------------------------------------------
(* Initial states and actions.                                             *)

\* History kept for stating properties: the greeting the server sent, the bytes
\* the handshake read returned, whether a read or write has failed, the call
\* that was abandoned last (0: none), whether the last command was written
\* completely, and whether lines of earlier responses were unread then; of the
\* last call, its argument, the bytes it wrote, and how it ended ("break",
\* "fail", "eof", "readfault", "writefault"; "" while it has not).
Hist0 ==
    [greeting |-> None, got |-> 0, fault |-> FALSE, cancelAt |-> 0,
     written |-> FALSE, stale |-> FALSE, arg |-> None, sent |-> <<>>,
     ended |-> ""]

\* A connected socket before Client::init: the server sends one greeting
\* line, or closes without sending anything.
Init ==
    /\ pc = "init"
    /\ op = "init"
    /\ acc = UnitLocals
    /\ result = NoResult
    /\ \/ \E g \in Greetings :
            /\ wire = Tagged(<<g>>, 0)
            /\ eof = FALSE
            /\ hist = [Hist0 EXCEPT !.greeting = Some(g)]
       \/ /\ wire = <<>>
          /\ eof = TRUE
          /\ hist = Hist0
    /\ tx = <<>>
    /\ inbox = <<>>
    /\ calls = 0
    /\ budget = MaxCalls
    /\ readLines = <<>>
    /\ AppInit

\* The 7-byte buffer after self.r.read(buf) returned n bytes of the stream.
ZERO == "\\0"
Buf(stream, n) == SubSeq(stream, 1, n) \o [i \in 1..(7 - n) |-> ZERO]

\* buf != b"OK MPD " does not hold
GreetedLoosely(buf) == SubSeq(buf, 1, 3) = SubSeq(GREETING, 1, 3)
Greeted(buf) == buf = GREETING

\* Client::init
InitRead ==
    /\ pc = "init"
    /\ LET stream == IF wire = <<>> THEN <<>> ELSE Head(wire).text \o <<NL>> IN
       \/ \* the read fails
          /\ result' = Err("transport")
          /\ pc' = "failed"
          /\ hist' = [hist EXCEPT !.fault = TRUE]
          /\ UNCHANGED wire
       \/ \* the read returns n bytes: 0 at end of stream, else whatever the
          \* transport delivered first, at most the 7 asked for
          \E n \in 0..Min(7, Len(stream)) :
            /\ (n = 0) <=> (stream = <<>>)
            /\ stream = <<>> => eof
            /\ IF ~Greeted(Buf(stream, n))
               THEN /\ result' = Err("server did not greet with a success")
                    /\ pc' = "failed"
                    /\ hist' = [hist EXCEPT !.got = n]
                    /\ UNCHANGED wire
               ELSE \* read_line consumes the rest of the greeting line, or fails
                    \/ /\ result' = Ok(<<>>)
                       /\ pc' = "ready"
                       /\ hist' = [hist EXCEPT !.got = n]
                       /\ wire' = Tail(wire)
                    \/ /\ result' = Err("transport")
                       /\ pc' = "failed"
                       /\ hist' = [hist EXCEPT !.got = n, !.fault = TRUE]
                       /\ UNCHANGED wire
    /\ UNCHANGED <<op, acc, eof, tx, inbox, calls, budget, readLines>>
    /\ UNCHANGED appVars

\* The start of a call: the locals are initialised and the command is written
\* by one write_all per chunk; the first f chunks are written, and unless that
\* is all of them the next write fails and the call returns the error.
Begin(o, arg, locals, chunks) ==
    /\ \E f \in 0..Len(chunks) :
         LET out == Flatten(SubSeq(chunks, 1, f))
             fed == Feed(tx, inbox, out, calls + 1)
         IN
         /\ tx' = fed.tx
         /\ inbox' = fed.inbox
         /\ IF f = Len(chunks)
            THEN /\ pc' = "reading"
                 /\ result' = NoResult
                 /\ hist' = [hist EXCEPT !.written = TRUE,
                                         !.stale = (wire # <<>> \/ inbox # <<>>),
                                         !.arg = arg, !.sent = out, !.ended = ""]
            ELSE /\ pc' = "ready"
                 /\ result' = Err("transport")
                 /\ hist' = [hist EXCEPT !.fault = TRUE, !.written = FALSE,
                                         !.arg = arg, !.sent = out,
                                         !.ended = "writefault"]
    /\ op' = o
    /\ acc' = locals
    /\ calls' = calls + 1
    /\ budget' = budget - 1
    /\ readLines' = <<>>
    /\ UNCHANGED <<wire, eof>>
    /\ UNCHANGED appVars

\* next_line() gave Ok(None); the call returns an error
EndOfStreamFails(o, a) == Err("transport")

\* next_line() gave Ok(None): the pattern of the while let does not match, the
\* loop ends and the code after it runs.
EndOfStream(o, a) == Return(o, a)

\* One turn of `while let Ok(Some(line)) = lines.next_line().await`.
NextLine ==
    /\ pc = "reading"
    /\ \/ \* Ok(Some(line))
          /\ wire # <<>>
          /\ LET l == Head(wire)
                 s == Step(op, acc, l.text)
             IN  /\ wire' = Tail(wire)
                 /\ readLines' = Append(readLines, l)
                 /\ acc' = s.acc
                 /\ pc' = IF s.ctl = "continue" THEN "reading" ELSE "ready"
                 /\ result' = CASE s.ctl = "continue" -> result
                                [] s.ctl = "break" -> Return(op, s.acc)
                                [] s.ctl = "fail" -> Err(s.err)
                 /\ hist' = [hist EXCEPT
                               !.ended = IF s.ctl = "continue" THEN "" ELSE s.ctl]
       \/ \* Ok(None): end of stream
          /\ wire = <<>>
          /\ eof
          /\ pc' = "ready"
          /\ result' = EndOfStream(op, acc)
          /\ hist' = [hist EXCEPT !.ended = "eof"]
          /\ UNCHANGED <<wire, readLines, acc>>
       \/ \* Err(_): the read fails
          /\ pc' = "ready"
          /\ result' = Return(op, acc)
          /\ hist' = [hist EXCEPT !.fault = TRUE, !.ended = "readfault"]
          /\ UNCHANGED <<wire, readLines, acc>>
    /\ UNCHANGED <<op, eof, tx, inbox, calls, budget>>
    /\ UNCHANGED appVars

\* Client::status
StatusCall == pc = "ready" /\ budget > 0 /\ Begin("status", None, StatusLocals, <<CMD_STATUS>>)
StatusRead == op = "status" /\ NextLine

\* Client::queue
QueueCall == pc = "ready" /\ budget > 0 /\ Begin("queue", None, QueueLocals, <<CMD_PLAYLISTINFO>>)
QueueRead == op = "queue" /\ NextLine

\* Client::idle
IdleCall == pc = "ready" /\ budget > 0 /\ Begin("idle", None, IdleLocals, <<CMD_IDLE>>)
IdleRead == op = "idle" /\ NextLine

\* Client::play without the last write_all
PlayCallNoNewline ==
    /\ pc = "ready"
    /\ budget > 0
    /\ \E pos \in Positions :
        Begin("play", Some(pos), UnitLocals, <<CMD_PLAY, UsizeToString(pos)>>)

\* Client::play
PlayCall ==
    /\ pc = "ready"
    /\ budget > 0
    /\ \E pos \in Positions :
        Begin("play", Some(pos), UnitLocals, <<CMD_PLAY, UsizeToString(pos), <<NL>>>>)
PlayRead == op = "play" /\ NextLine

\* Client::command
CommandCall ==
    /\ pc = "ready"
    /\ budget > 0
    /\ \E cmd \in Commands : Begin("command", cmd, UnitLocals, <<cmd, <<NL>>>>)
CommandRead == op = "command" /\ NextLine

\* The caller drops the future of idle() while it waits for a line.  The line
\* reader of that call dies with it, and so do the k bytes of an unfinished
\* line it had already taken out of the BufReader.
IdleCancel ==
    /\ pc = "reading"
    /\ op = "idle"
    /\ pc' = "ready"
    /\ result' = NoResult
    /\ hist' = [hist EXCEPT !.cancelAt = calls]
    /\ IF wire = <<>> THEN UNCHANGED wire
       ELSE \E k \in 0..Len(Head(wire).text) :
              wire' = <<[Head(wire) EXCEPT !.text = Skip(@, k)]>> \o Tail(wire)
    /\ UNCHANGED <<op, acc, eof, tx, inbox, calls, budget, readLines>>
    /\ UNCHANGED appVars

\* The server answers the oldest unanswered command line.
ServerRespond ==
    /\ inbox # <<>>
    /\ ~eof
    /\ \E reply \in Replies(Head(inbox).line) :
         wire' = wire \o Tagged(reply, Head(inbox).id)
    /\ inbox' = Tail(inbox)
    /\ UNCHANGED <<pc, op, acc, result, eof, tx, calls, budget, readLines, hist>>
    /\ UNCHANGED appVars

\* The server closes the connection.
ServerClose ==
    /\ ~eof
    /\ eof' = TRUE
    /\ UNCHANGED <<pc, op, acc, result, wire, tx, inbox, calls, budget, readLines, hist>>
    /\ UNCHANGED appVars

\* The connection is lost while lines of a response are in flight: the client
\* receives the first k of them and then the end of the stream.
ServerAbort ==
    /\ ~eof
    /\ wire # <<>>
    /\ \E k \in 0..(Len(wire) - 1) : wire' = SubSeq(wire, 1, k)
    /\ eof' = TRUE
    /\ UNCHANGED <<pc, op, acc, result, tx, inbox, calls, budget, readLines, hist>>
    /\ UNCHANGED appVars

Next ==
    \/ InitRead
    \/ StatusCall \/ StatusRead
    \/ QueueCall \/ QueueRead
    \/ IdleCall \/ IdleRead \/ IdleCancel
    \/ PlayCall \/ PlayRead
    \/ CommandCall \/ CommandRead
    \/ ServerRespond
    \/ ServerClose

Spec == Init /\ [][Next]_vars

----------------------------------------------------------------------------
(* A second server, for the decoders: it answers with any reply made of at *)
(* most a given number of payload lines taken in order from a template,    *)
(* each place of the template offering alternative lines, and ends it OK.  *)

MaxStatusLines == 8
MaxQueueLines == 6
MaxIdleLines == 4

RECURSIVE Fill(_, _)
Fill(slots, n) ==
    IF slots = <<>> \/ n = 0 THEN {<<>>}
    ELSE Fill(Tail(slots), n)
         \cup {<<l>> \o r : l \in Head(slots), r \in Fill(Tail(slots), n - 1)}

StatusTemplate ==
    << {VOLUME_LINE},
       {REPEAT_0, REPEAT_1},
       {RANDOM_1},
       {SINGLE_1, SINGLE_ONESHOT},
       {CONSUME_0},
       {PLAYLISTLENGTH \o <<"3">>, PLAYLISTLENGTH \o <<"x">>},
       {STATE_PLAY, STATE_PAUSE},
       {SONG \o <<"1">>, SONG \o <<"x">>},
       {ELAPSED \o <<"1", "2", ".", "6">>, ELAPSED \o NAN},
       {STATE_PLAY, STATE_STOP},
       {REPEAT_0},
       {<<"r", "e", "p", "e", "a", "t", ":", " ", "2">>} >>

QueueTemplate ==
    << {ARTIST \o <<"W">>},
       {FILE \o A_MP3, FILE},
       {ARTIST \o <<"X">>},
       {TITLE \o <<"Y">>, ALBUM \o <<"B">>},
       {TIME \o <<"1", "2", "0">>, TIME \o <<"x">>},
       {ARTIST \o <<"Z">>},
       {<<"I", "d", ":", " ", "1">>},
       {FILE \o B_MP3},
       {TIME \o <<"5">>, TIME \o U16_MAX, TIME \o <<"6", "5", "5", "3", "6">>},
       {TITLE \o <<"Y">>},
       {<<"P", "o", "s", ":", " ", "1">>},
       {FILE \o A_MP3} >>

IdleTemplate ==
    << {CHANGED_OPTIONS, CHANGED_DATABASE},
       {CHANGED_PLAYER},
       {CHANGED_PLAYLIST},
       {CHANGED_DATABASE, CHANGED_PLAYER},
       {CHANGED_PLAYLIST},
       {<<"c", "h", "a", "n", "g", "e", "d", ":", " ", "m", "i", "x", "e", "r">>} >>

RichReplies(line) ==
    LET body == IF line \o <<NL>> = CMD_STATUS THEN Fill(StatusTemplate, MaxStatusLines)
                ELSE IF line \o <<NL>> = CMD_PLAYLISTINFO THEN Fill(QueueTemplate, MaxQueueLines)
                ELSE Fill(IdleTemplate, MaxIdleLines)
    IN  {b \o <<OK>> : b \in body}

\* A client whose handshake succeeded and whose application makes one call.
InitDecode ==
    /\ pc = "ready"
    /\ op = "init"
    /\ acc = UnitLocals
    /\ result = Ok(<<>>)
    /\ wire = <<>>
    /\ eof = FALSE
    /\ hist = [Hist0 EXCEPT !.greeting = Some(GREETING_LINE), !.got = 7]
    /\ tx = <<>>
    /\ inbox = <<>>
    /\ calls = 0
    /\ budget = 1
    /\ readLines = <<>>
    /\ AppInit

ServerRespondRich ==
    /\ inbox # <<>>
    /\ ~eof
    /\ \E reply \in RichReplies(Head(inbox).line) :
         wire' = wire \o Tagged(reply, Head(inbox).id)
    /\ inbox' = Tail(inbox)
    /\ UNCHANGED <<pc, op, acc, result, eof, tx, calls, budget, readLines, hist>>
    /\ UNCHANGED appVars

NextDecode ==
    \/ StatusCall \/ StatusRead
    \/ QueueCall \/ QueueRead
    \/ IdleCall \/ IdleRead
    \/ ServerRespondRich
    \/ ServerClose

SpecDecode == InitDecode /\ [][NextDecode]_vars

\* One call of any operation on a connection that the server may close, or
\* lose, before, after or in the middle of its response.
NextClose ==
    \/ StatusCall \/ StatusRead
    \/ QueueCall \/ QueueRead
    \/ IdleCall \/ IdleRead
    \/ PlayCall \/ PlayRead
    \/ CommandCall \/ CommandRead
    \/ ServerRespond
    \/ ServerClose
    \/ ServerAbort

SpecClose == InitDecode /\ [][NextClose]_vars


----------------------------------------------------------------------------
(* The event loop of App::run.  One iteration is the select!, with the      *)
(* handler of the branch that completed, and then terminal.draw.            *)

MaxIterations == 6

\* An iteration begins: `woke` tells the branch of the select! that completed.
BeginIteration(woke, event) ==
    [ahist EXCEPT !.iterations = @ + 1, !.woke = woke, !.event = event,
                  !.draws = 0, !.ticks = 0]

\* select!: events.next() gave Some(Ok(event)); handle_event runs.
AppEvent ==
    /\ run = "select"
    /\ ahist.iterations < MaxIterations
    /\ \E event \in Events :
         LET quit == HandleEvent(should_quit, event)
             h    == BeginIteration("event", event)
         IN  /\ should_quit' = quit
             /\ ahist' = IF quit /\ ~should_quit
                         THEN [h EXCEPT !.quitEvent = event, !.everQuit = TRUE]
                         ELSE h
    /\ run' = "draw"
    /\ UNCHANGED <<is_playing, never>>
    /\ UNCHANGED mpdVars

\* select!: the tick completed.  While is_playing is false the tick is that of
\* `never`: never.reset() re-arms it one period (u64::MAX seconds) from now, or
\* panics where that instant cannot be represented, and `continue` starts the
\* next iteration.  While is_playing is true handle_tick runs.
AppTick ==
    /\ run = "select"
    /\ ahist.iterations < MaxIterations
    /\ is_playing \/ never = "due"
    /\ LET h == BeginIteration("tick", NoEvent) IN
       IF ~is_playing
       THEN /\ ahist' = h
            /\ \/ never' = "armed" /\ run' = "select"
               \/ never' = never /\ run' = "panicked"
       ELSE /\ ahist' = [h EXCEPT !.ticks = 1]
            /\ run' = "draw"
            /\ UNCHANGED never
    /\ UNCHANGED <<should_quit, is_playing>>
    /\ UNCHANGED mpdVars

\* terminal.draw(..)?, then the test of `while !self.should_quit`.
AppDraw ==
    /\ run = "draw"
    /\ ahist' = [ahist EXCEPT !.draws = @ + 1,
                              !.quitDraws = IF should_quit THEN @ + 1 ELSE @]
    /\ \/ run' = IF should_quit THEN "returned" ELSE "select"
       \/ run' = "failed"
    /\ UNCHANGED <<should_quit, is_playing, never>>
    /\ UNCHANGED mpdVars

\* main: no Client is made; the application runs its event loop.
InitApp ==
    /\ pc = "init"
    /\ op = "init"
    /\ acc = UnitLocals
    /\ result = NoResult
    /\ wire = <<>>
    /\ eof = FALSE
    /\ hist = Hist0
    /\ tx = <<>>
    /\ inbox = <<>>
    /\ calls = 0
    /\ budget = 0
    /\ readLines = <<>>
    /\ AppInit

NextApp ==
    \/ AppEvent
    \/ AppTick
    \/ AppDraw

SpecApp == InitApp /\ [][NextApp]_vars

----------------------------------------------------------------------------
(* Vocabulary of the properties.                                           *)

Texts(ls) == [i \in 1..Len(ls) |-> ls[i].text]
Last(s) == s[Len(s)]

\* The lines the call in progress, or the last call, has read.
Lines == Texts(readLines)

\* The response to the only call of a session of one call: the lines the call
\* has read, then those it left in the stream.
Sent == Lines \o Texts(wire)

\* Call o wrote its command, ran its read loop and has returned.
LoopEnded(o) ==
    /\ pc = "ready"
    /\ op = o
    /\ hist.written
    /\ result.tag # "none"

IsSentinel(line) == line = OK \/ StartsWith(line, ACK)

\* The lines a decoder gives a meaning to, as the specification lists them.
Exact(o) ==
    CASE o = "status" -> { REPEAT_0, REPEAT_1, RANDOM_0, RANDOM_1, SINGLE_0,
                           SINGLE_1, SINGLE_ONESHOT, CONSUME_0, CONSUME_1,
                           STATE_PLAY, STATE_PAUSE }
      [] o = "queue" -> {}
      [] o = "idle" -> { CHANGED_OPTIONS, CHANGED_PLAYER, CHANGED_PLAYLIST }

Prefixes(o) ==
    CASE o = "status" -> { PLAYLISTLENGTH, SONG, ELAPSED }
      [] o = "queue" -> { FILE, ARTIST, ALBUM, TITLE, TIME }
      [] o = "idle" -> {}

Unknown(o, line) ==
    /\ ~IsSentinel(line)
    /\ line \notin Exact(o)
    /\ \A p \in Prefixes(o) : ~StartsWith(line, p)

RECURSIVE Keep(_, _)
Keep(o, lines) ==
    IF lines = <<>> THEN <<>>
    ELSE IF Unknown(o, Head(lines)) THEN Keep(o, Tail(lines))
    ELSE <<Head(lines)>> \o Keep(o, Tail(lines))

SameResult(r1, r2) ==
    /\ r1.tag = r2.tag
    /\ r1.err = r2.err
    /\ r1.tag = "ok" => r1.val = r2.val

\* The position of the last line of lines[from..to] that is in set S or starts
\* with prefix p; 0 when there is none.
LastIn(lines, from, to, S, p) ==
    LET hits == {i \in from..to : lines[i] \in S \/ (p # <<>> /\ StartsWith(lines[i], p))} IN
    IF hits = {} THEN 0 ELSE CHOOSE i \in hits : \A j \in hits : j <= i

LastOf(lines, S, p) == LastIn(lines, 1, Len(lines), S, p)

AllFive(lines) ==
    /\ LastOf(lines, {REPEAT_0, REPEAT_1}, <<>>) # 0
    /\ LastOf(lines, {RANDOM_0, RANDOM_1}, <<>>) # 0
    /\ LastOf(lines, {SINGLE_0, SINGLE_1, SINGLE_ONESHOT}, <<>>) # 0
    /\ LastOf(lines, {CONSUME_0, CONSUME_1}, <<>>) # 0
    /\ LastOf(lines, {}, PLAYLISTLENGTH) # 0

\* A Time line whose value does not parse as u16.
BadTime(line) == StartsWith(line, TIME) /\ ~ParseU16(Skip(line, Len(TIME))).ok

\* A numeric status line whose value does not parse.
BadStatusNumber(line) ==
    \/ StartsWith(line, PLAYLISTLENGTH) /\ ~ParseUsize(Skip(line, 16)).ok
    \/ StartsWith(line, SONG) /\ ~ParseUsize(Skip(line, 6)).ok
    \/ StartsWith(line, ELAPSED) /\ ~ParseElapsed(Skip(line, 9)).ok

----------------------------------------------------------------------------
(* Properties.                                                             *)

\* C1 (half-duplex framing): as long as no call was abandoned, no read or
\* write failed and the server has not closed, a command is written only when
\* no line of an earlier response is unread, and every line a call reads
\* belongs to the response to its own command.
C1_OwnResponseOnly ==
    (hist.cancelAt = 0 /\ ~hist.fault /\ ~eof)
        => /\ ~hist.stale
           /\ \A i \in 1..Len(readLines) : readLines[i].owner = calls

\* C2 (idle cancellation): the call that follows an abandoned idle() reads
\* only lines of the response to its own command.
C2_CallAfterCancelledIdleReadsOwn ==
    (hist.cancelAt > 0 /\ calls = hist.cancelAt + 1 /\ hist.written /\ ~hist.fault)
        => \A i \in 1..Len(readLines) : readLines[i].owner = calls

\* C3 (sentinel termination): in every operation the first line that is OK or
\* starts with "ACK " is the last line the call reads: the loop has stopped
\* once such a line was read.
C3_StopsAtFirstSentinel ==
    \A i \in 1..Len(readLines) :
        IsSentinel(readLines[i].text) => (i = Len(readLines) /\ pc # "reading")

\* The server sent a greeting line that begins with "OK MPD ".
WellGreeted == IsSome(hist.greeting) /\ StartsWith(hist.greeting[1], GREETING)

\* C4 (handshake success): when the stream begins with "OK MPD ", a version and
\* a newline, init() succeeds however the transport splits the bytes (no read
\* failing), and it has consumed exactly the greeting line.
C4_HandshakeSucceeds ==
    (WellGreeted /\ pc # "init" /\ ~hist.fault)
        => /\ pc # "failed"
           /\ calls = 0 => (result.tag = "ok" /\ wire = <<>>)

\* The first 7 bytes of the stream (fewer when the stream is shorter).
First7 ==
    IF IsSome(hist.greeting)
    THEN SubSeq(hist.greeting[1] \o <<NL>>, 1, Min(7, Len(hist.greeting[1]) + 1))
    ELSE <<>>

\* C5 (handshake failure): when the first 7 bytes of the stream are not
\* "OK MPD ", init() fails and returns no client, with the handshake error
\* unless the read itself failed, and no command byte is ever written.
C5_HandshakeFailure ==
    (pc # "init" /\ First7 # GREETING)
        => /\ pc = "failed"
           /\ result.tag = "err"
           /\ ~hist.fault => result.err = "server did not greet with a success"
           /\ calls = 0 /\ tx = <<>> /\ inbox = <<>>

\* C5's case: all 7 bytes were read and they are not the greeting.
C5_Witness ==
    /\ pc = "failed"
    /\ hist.got = 7
    /\ First7 # GREETING
    /\ result.err = "server did not greet with a success"

\* C6 (no partial Status): status() returns a Status only if all five required
\* lines were read; when one is missing and the loop ended (it was not left by
\* a numeric decode error) the call fails with "incomplete status response".
C6_NoPartialStatus ==
    LoopEnded("status")
        => /\ result.tag = "ok" => AllFive(Lines)
           /\ ~AllFive(Lines) => result.tag = "err"
           /\ (~AllFive(Lines) /\ ~(Lines # <<>> /\ BadStatusNumber(Last(Lines))))
                => result = Err("incomplete status response")

\* C6's case: a response that lacks only the consume line, ended by OK.
C6_Witness ==
    /\ LoopEnded("status")
    /\ Len(Lines) >= 5
    /\ Last(Lines) = OK
    /\ LastOf(Lines, {REPEAT_0, REPEAT_1}, <<>>) # 0
    /\ LastOf(Lines, {RANDOM_0, RANDOM_1}, <<>>) # 0
    /\ LastOf(Lines, {SINGLE_0, SINGLE_1, SINGLE_ONESHOT}, <<>>) # 0
    /\ LastOf(Lines, {}, PLAYLISTLENGTH) # 0
    /\ LastOf(Lines, {CONSUME_0, CONSUME_1}, <<>>) = 0
    /\ result = Err("incomplete status response")

\* The Status the claim describes for the lines read.
ExpectedSingle(line) ==
    IF line = SINGLE_ONESHOT THEN None ELSE Some(line = SINGLE_1)

ExpectedState(lines) ==
    LET i == LastOf(lines, {STATE_PLAY, STATE_PAUSE}, <<>>) IN
    IF i = 0 THEN "Stop" ELSE IF lines[i] = STATE_PLAY THEN "Play" ELSE "Pause"

\* C7 (status decoding result): for an OK-terminated response with all five
\* required fields the call returns a Status whose repeat, random, single,
\* consume and queue length are those of the last matching line, whose state
\* follows the last "state: play"/"state: pause" line (Stop without one), and
\* whose song is present exactly when a song line and an elapsed line were read
\* (a response whose numbers all parse, read without a failing read).
C7_StatusDecoding ==
    (/\ LoopEnded("status") /\ ~hist.fault
     /\ Sent # <<>> /\ Last(Sent) = OK /\ AllFive(Sent)
     /\ \A i \in 1..Len(Sent) : ~BadStatusNumber(Sent[i]))
        => /\ result.tag = "ok"
           /\ result.val.repeat = (Sent[LastOf(Sent, {REPEAT_0, REPEAT_1}, <<>>)] = REPEAT_1)
           /\ result.val.random = (Sent[LastOf(Sent, {RANDOM_0, RANDOM_1}, <<>>)] = RANDOM_1)
           /\ result.val.single
                = ExpectedSingle(Sent[LastOf(Sent, {SINGLE_0, SINGLE_1, SINGLE_ONESHOT}, <<>>)])
           /\ result.val.consume = (Sent[LastOf(Sent, {CONSUME_0, CONSUME_1}, <<>>)] = CONSUME_1)
           /\ result.val.queue_len
                = ParseUsize(Skip(Sent[LastOf(Sent, {}, PLAYLISTLENGTH)], 16)).val
           /\ result.val.state = ExpectedState(Sent)
           /\ IsSome(result.val.song)
                <=> (LastOf(Sent, {}, SONG) # 0 /\ LastOf(Sent, {}, ELAPSED) # 0)

\* C7's case: a Status decoded from a response that repeats a field with
\* another value and has a song line without an elapsed line.
C7_Witness ==
    /\ LoopEnded("status")
    /\ ~hist.fault
    /\ result.tag = "ok"
    /\ Last(Lines) = OK
    /\ \E i, j \in 1..Len(Lines) : i < j /\ Lines[i] = REPEAT_1 /\ Lines[j] = REPEAT_0
    /\ LastOf(Lines, {}, SONG) # 0
    /\ LastOf(Lines, {}, ELAPSED) = 0
    /\ result.val.state = "Pause"

\* The track records the claim describes for the lines read: one per "file: "
\* line, in order, each with the last Artist/Album/Title/Time line found
\* between its own "file: " line and the next one.
RECURSIVE Ascending(_)
Ascending(S) ==
    IF S = {} THEN <<>>
    ELSE LET m == CHOOSE x \in S : \A y \in S : x <= y IN
         <<m>> \o Ascending(S \ {m})

ExpectedField(lines, from, to, p) ==
    LET i == LastIn(lines, from, to, {}, p) IN
    IF i = 0 THEN None ELSE Some(Skip(lines[i], Len(p)))

ExpectedTime(lines, from, to) ==
    LET i == LastIn(lines, from, to, {}, TIME) IN
    IF i = 0 THEN 0 ELSE ParseU16(Skip(lines[i], Len(TIME))).val

ExpectedTracks(lines) ==
    LET at == Ascending({i \in 1..Len(lines) : StartsWith(lines[i], FILE)})
        n  == Len(at)
    IN  [k \in 1..n |->
            LET from == at[k]
                to   == IF k < n THEN at[k + 1] - 1 ELSE Len(lines)
            IN  [file |-> Skip(lines[from], Len(FILE)),
                 artist |-> ExpectedField(lines, from, to, ARTIST),
                 album |-> ExpectedField(lines, from, to, ALBUM),
                 title |-> ExpectedField(lines, from, to, TITLE),
                 time |-> ExpectedTime(lines, from, to)]]

\* C8 (queue decoding result): for an OK-terminated playlistinfo response with
\* valid Time values, read without a failing read, the call returns one Track per "file: " line, in the order received, built from
\* the lines of its own record only; no "file: " line gives the empty sequence.
C8_QueueDecoding ==
    (/\ LoopEnded("queue") /\ ~hist.fault
     /\ Sent # <<>> /\ Last(Sent) = OK
     /\ \A i \in 1..Len(Sent) : ~BadTime(Sent[i]))
        => /\ result.tag = "ok"
           /\ Len(result.val) = Len(ExpectedTracks(Sent))
           /\ \A k \in 1..Len(result.val) : result.val[k] = ExpectedTracks(Sent)[k]

\* C8's case: two tracks, an Artist line before the first "file: " line, a
\* Time line in the first record and none in the second.
C8_Witness ==
    /\ LoopEnded("queue")
    /\ ~hist.fault
    /\ Len(Lines) >= 5
    /\ Last(Lines) = OK
    /\ StartsWith(Lines[1], ARTIST)
    /\ result.tag = "ok"
    /\ Len(result.val) = 2
    /\ result.val[1].artist = None
    /\ result.val[1].time = 120
    /\ result.val[2].time = 0

\* C9 (idle decoding result): idle() returns (status_changed, queue_changed):
\* the first is true exactly when a "changed: options" or "changed: player"
\* line was read, the second exactly when a "changed: playlist" line was read;
\* and unless a read failed, the lines read are the whole response up to OK.
C9_IdleDecoding ==
    LoopEnded("idle")
        => /\ result.tag = "ok"
           /\ result.val[1] = (\E i \in 1..Len(Lines) :
                                  Lines[i] \in {CHANGED_OPTIONS, CHANGED_PLAYER})
           /\ result.val[2] = (\E i \in 1..Len(Lines) : Lines[i] = CHANGED_PLAYLIST)
           /\ ~hist.fault => Lines = Sent

\* C9's case: two status notifications, another change class, no playlist
\* notification, then OK.
C9_Witness ==
    /\ LoopEnded("idle")
    /\ ~hist.fault
    /\ Lines # <<>>
    /\ Last(Lines) = OK
    /\ \E i, j \in 1..Len(Lines) :
          /\ i < j
          /\ Lines[i] \in {CHANGED_OPTIONS, CHANGED_PLAYER}
          /\ Lines[j] = CHANGED_PLAYER
    /\ \E i \in 1..Len(Lines) : Lines[i] = CHANGED_DATABASE
    /\ result = Ok(<<TRUE, FALSE>>)

\* C10 (robustness to unknown lines): what status, queue and idle return for
\* a response is what their loop returns for the same response without the
\* lines that are no sentinel and match none of the decoder's patterns.
C10_UnknownLinesIgnored ==
    \A o \in {"status", "queue", "idle"} :
        (LoopEnded(o) /\ ~hist.fault)
            => SameResult(result, Decode(o, Keep(o, Sent)))

\* C10's case: a Status decoded from a response with two unknown lines in it.
C10_Witness ==
    /\ LoopEnded("status")
    /\ ~hist.fault
    /\ result.tag = "ok"
    /\ \E i, j \in 1..Len(Lines) :
          i < j /\ Unknown("status", Lines[i]) /\ Unknown("status", Lines[j])

\* s is written as a number: an optional sign, then decimal digits with at most
\* one '.' and at least one digit, and an optional exponent.
IsNumber(s) ==
    LET body == IF s # <<>> /\ s[1] \in {"+", "-"} THEN Tail(s) ELSE s
        marks == {i \in 1..Len(body) : body[i] \in {"e", "E"}}
        e    == IF marks = {} THEN Len(body) + 1
                ELSE CHOOSE i \in marks : \A j \in marks : i <= j
        mant == SubSeq(body, 1, e - 1)
        x    == SubSeq(body, e + 1, Len(body))
        xd   == IF x # <<>> /\ x[1] \in {"+", "-"} THEN Tail(x) ELSE x
    IN  /\ \E i \in 1..Len(mant) : mant[i] \in Digits
        /\ \A i \in 1..Len(mant) : mant[i] \in Digits \cup {"."}
        /\ Cardinality({i \in 1..Len(mant) : mant[i] = "."}) <= 1
        /\ e <= Len(body) => (xd # <<>> /\ AllDigits(xd))

\* A line of the response to o that has a numeric field's prefix and a suffix
\* that is not written as a number.
NonNumericLine(o, line) ==
    \E p \in (IF o = "status" THEN {PLAYLISTLENGTH, SONG, ELAPSED} ELSE {TIME}) :
        StartsWith(line, p) /\ ~IsNumber(Skip(line, Len(p)))

\* C11 (numeric decode errors abort): a playlistlength, song or elapsed line of
\* a status response, or a Time line of a playlistinfo response, whose suffix
\* is not a number is the last line the call reads, and the call has returned
\* the decode error, whatever lines came before it.
C11_NumericDecodeErrorsAbort ==
    \A o \in {"status", "queue"} :
        (op = o /\ hist.written)
            => \A i \in 1..Len(Lines) :
                 NonNumericLine(o, Lines[i])
                    => (i = Len(Lines) /\ pc = "ready" /\ result = Err("decode"))

\* C12 (ACK is silent success for payload-free commands): once play(n) or
\* command(cmd) has read an OK line or a line beginning with "ACK " it has
\* returned; whatever lines its loop read, it returns success without a value;
\* its only failure is that of writing the command.
C12_AckIsSilentSuccess ==
    \A o \in {"play", "command"} :
        (op = o /\ pc \in {"reading", "ready"})
            => /\ (\E i \in 1..Len(Lines) : IsSentinel(Lines[i]))
                    => (pc = "ready" /\ result = Ok(<<>>))
               /\ LoopEnded(o) => result = Ok(<<>>)
               /\ (pc = "ready" /\ result.tag = "err")
                    => (result.err = "transport" /\ ~hist.written)

\* C12's case: play(n) has returned success after reading its own response,
\* which is an ACK line.
C12_Witness ==
    /\ LoopEnded("play")
    /\ Lines # <<>>
    /\ StartsWith(Last(Lines), ACK)
    /\ result = Ok(<<>>)
    /\ \A i \in 1..Len(readLines) : readLines[i].owner = calls

Operations == {"status", "queue", "idle", "play", "command"}

\* C13 (transport errors propagate): a call whose command could not be written,
\* or one of whose reads of a response line failed, has returned a failure.
C13_TransportErrorsPropagate ==
    (pc = "ready" /\ op \in Operations /\ hist.ended \in {"writefault", "readfault"})
        => result.tag = "err"

\* C14 (end of stream terminates the read loop): a call that waits for a line
\* when the stream has ended can take its next step, which returns; when the
\* end of the stream ended the loop, play, command, idle and queue have
\* returned success, and status has returned a Status exactly when the five
\* required fields were read, and the error "incomplete status response"
\* otherwise.
C14_EndOfStreamEndsLoop ==
    /\ (pc = "reading" /\ wire = <<>> /\ eof)
          => ENABLED (NextLine /\ pc' = "ready" /\ hist'.ended = "eof")
    /\ (pc = "ready" /\ op \in Operations /\ hist.ended = "eof")
          => /\ op # "status" => result.tag = "ok"
             /\ op = "status" =>
                  IF AllFive(Lines) THEN result.tag = "ok"
                  ELSE result = Err("incomplete status response")

\* C14's case: the stream ended in the middle of a status response after the
\* five required fields, and status() returned the Status.
C14_Witness ==
    /\ pc = "ready"
    /\ op = "status"
    /\ hist.ended = "eof"
    /\ AllFive(Lines)
    /\ result.tag = "ok"

\* C15 (file is non-empty): every Track that queue() returns has a non-empty
\* file, whatever lines the response is made of.
C15_TrackFileNonEmpty ==
    (pc = "ready" /\ op = "queue" /\ result.tag = "ok")
        => \A k \in 1..Len(result.val) : result.val[k].file # <<>>

\* The duration written in the last Time line of lines[from..to]; 0 without one.
TimeWritten(lines, from, to) ==
    LET i == LastIn(lines, from, to, {}, TIME) IN
    IF i = 0 THEN 0 ELSE Decimal(Skip(lines[i], Len(TIME)))

\* C16 (track duration range): for an OK-terminated playlistinfo response whose
\* Time lines all carry a decimal unsigned integer, of any size, queue()
\* succeeds and the time of each track is the number its record's last Time
\* line carries.
C16_TrackTimeRange ==
    (/\ LoopEnded("queue") /\ ~hist.fault
     /\ Sent # <<>> /\ Last(Sent) = OK
     /\ \A i \in 1..Len(Sent) :
          StartsWith(Sent[i], TIME)
             => (Len(Sent[i]) > Len(TIME) /\ AllDigits(Skip(Sent[i], Len(TIME)))))
        => /\ result.tag = "ok"
           /\ LET at == Ascending({i \in 1..Len(Sent) : StartsWith(Sent[i], FILE)}) IN
              /\ Len(result.val) = Len(at)
              /\ \A k \in 1..Len(at) :
                    result.val[k].time
                      = TimeWritten(Sent, at[k],
                                    IF k < Len(at) THEN at[k + 1] - 1 ELSE Len(Sent))

\* line is the command line of the call in progress, without its newline, as
\* the protocol writes it; for play(n) the canonical decimal digits of n follow
\* "play ".
IsCommandLine(line) ==
    CASE op = "status" -> line = <<"s", "t", "a", "t", "u", "s">>
      [] op = "queue" -> line = <<"p", "l", "a", "y", "l", "i", "s", "t", "i", "n", "f", "o">>
      [] op = "idle" -> line = <<"i", "d", "l", "e", " ", "o", "p", "t", "i", "o", "n", "s", " ", "p", "l", "a", "y", "e", "r", " ", "p", "l", "a", "y", "l", "i", "s", "t">>
      [] op = "play" ->
            /\ StartsWith(line, <<"p", "l", "a", "y", " ">>)
            /\ LET d == Skip(line, 5) IN
               /\ d # <<>>
               /\ AllDigits(d)
               /\ Decimal(d) = hist.arg[1]
               /\ (Len(d) = 1 \/ d[1] # "0")
      [] op = "command" -> line = hist.arg

\* C17 (one command line per call, written before reading): a call whose write
\* succeeded has written its command line and one newline, which is the last
\* byte, and nothing else; a call that has read a line has written all of it
\* before; a call whose write failed has returned a failure and has read no
\* line.
C17_OneCommandLineFirst ==
    op \in Operations
        => /\ hist.written
                => /\ hist.sent # <<>>
                   /\ Last(hist.sent) = "\n"
                   /\ IsCommandLine(SubSeq(hist.sent, 1, Len(hist.sent) - 1))
                   /\ \A i \in 1..(Len(hist.sent) - 1) : hist.sent[i] # "\n"
           /\ readLines # <<>> => hist.written
           /\ ~hist.written
                => (pc = "ready" /\ result.tag = "err" /\ readLines = <<>>)

\* C17's case: play(12) has written "play 12" and a newline in three writes and
\* then read its response.
C17_Witness ==
    /\ LoopEnded("play")
    /\ hist.arg = Some(12)
    /\ hist.sent = <<"p", "l", "a", "y", " ", "1", "2", "\n">>
    /\ readLines # <<>>

\* A Time line whose suffix is not a decimal unsigned integer below 2^16.
TimeRejected(line) ==
    /\ StartsWith(line, TIME)
    /\ LET d == Skip(line, Len(TIME)) IN
       d = <<>> \/ ~AllDigits(d) \/ Exceeds(d, U16_MAX)

\* C18 (no incomplete playlist): in queue(), once a "file: " line was read a
\* file is accumulated, so the call never fails with "incomplete playlist
\* response"; when it fails, either its command was not written, or the last
\* line it read is a Time line with a non-numeric or out-of-range value.
C18_NoIncompletePlaylist ==
    (op = "queue" /\ pc \in {"reading", "ready"})
        => /\ acc.first \/ IsSome(acc.file)
           /\ acc.first <=> (\A i \in 1..Len(Lines) : ~StartsWith(Lines[i], FILE))
           /\ result.err # "incomplete playlist response"
           /\ (pc = "ready" /\ result.tag = "err")
                => \/ ~hist.written /\ result.err = "transport"
                   \/ /\ hist.written
                      /\ result.err = "decode"
                      /\ Lines # <<>>
                      /\ TimeRejected(Last(Lines))

\* C18's case: queue() has read three "file: " lines and returned three tracks.
C18_Witness ==
    /\ LoopEnded("queue")
    /\ Cardinality({i \in 1..Len(Lines) : StartsWith(Lines[i], FILE)}) = 3
    /\ result.tag = "ok"
    /\ Len(result.val) = 3

\* C19 (one draw per iteration): in every iteration of the event loop that has
\* ended, terminal.draw was called exactly once, also when the tick woke the
\* loop while is_playing was false.
C19_DrawOncePerIteration ==
    (ahist.iterations > 0 /\ run \in {"select", "returned", "failed"})
        => ahist.draws = 1

\* C20 (quit): should_quit is true only after the handling of a key press of
\* 'q' or Esc, and stays true; once it is true the loop is at its draw or run()
\* has returned, after exactly one more draw; an iteration that called
\* handle_tick ran while is_playing was true.
C20_QuitOnlyOnQuitKey ==
    /\ should_quit
          => /\ ahist.quitEvent.type = "key"
             /\ ahist.quitEvent.kind = "Press"
             /\ ahist.quitEvent.code \in {"q", "Esc"}
             /\ ahist.woke = "event"
             /\ ahist.event = ahist.quitEvent
    /\ ahist.everQuit => should_quit
    /\ should_quit
          => \/ run = "draw" /\ ahist.quitDraws = 0
             \/ run \in {"returned", "failed"} /\ ahist.quitDraws = 1
    /\ run = "returned" => should_quit
    /\ ahist.ticks > 0 => is_playing

\* C20's case: after other events and draws, Esc was pressed, the loop drew
\* once more and run() returned.
C20_Witness ==
    /\ run = "returned"
    /\ should_quit
    /\ ahist.quitEvent = [type |-> "key", kind |-> "Press", code |-> "Esc"]
    /\ ahist.iterations >= 3
    /\ ahist.quitDraws = 1

====
